---- MODULE Spec2Model ----
(***************************************************************************)
(* Daily wellness check-in agent (backend/src/agent.py): the CheckInState  *)
(* of each session, the three tools that mutate it, and the JSON history   *)
(* log (wellness_log.json) that complete_checkin appends to.               *)
(*                                                                         *)
(* One worker process runs the sessions; every tool body and the part of   *)
(* entrypoint before its first await run without yielding, so each is one  *)
(* atomic action.  The file system and the clock are the environment.      *)
(***************************************************************************)
EXTENDS Integers, Sequences, FiniteSets, TLC

\* ------------------------------------------------------------------ bounds
\* No more than MaxLog elements are ever held by the history list.
MaxLog == 2
\* At most MaxFaults writes of the log fail.
MaxFaults == 1

\* ------------------------------------------------------------------ inputs
\* Python's None; str(None) is "None" inside an f-string.
None == "<None>"
\* The sessions (jobs) the worker is handed.
Sessions == {"s1", "s2"}
\* Arguments the conversational driver passes to the tools.
MoodEnergyArgs == {<<"happy", "high">>, <<"stressed", "low">>}
ObjectiveLists == {<<>>, <<"read">>, <<"read", "walk">>}
Summaries == {"Keep it up!"}

\* A record as save_checkin_entry writes it, left by an earlier run.
OldRecord ==
  [timestamp |-> 0, mood |-> "stressed", energy |-> "low",
   objectives |-> <<"walk">>, summary |-> "Rest well."]
\* A JSON object of an older layout: none of the keys entrypoint reads.
LegacyElement == [note |-> "felt fine"]

\* Contents wellness_log.json can have when the worker starts.
\*   missing : os.path.exists(path) is false
\*   corrupt : the file exists and json.load raises on it
\*   nonlist : json.load returns a value that is not a list
\*   list    : json.load returns the list in .data
InitialFiles ==
  { [kind |-> "missing", data |-> <<>>],
    [kind |-> "corrupt", data |-> <<>>],
    [kind |-> "nonlist", data |-> <<>>],
    [kind |-> "list", data |-> <<>>],
    [kind |-> "list", data |-> <<LegacyElement>>],
    [kind |-> "list", data |-> <<OldRecord>>] }

\* How the write at the end of save_checkin_entry can go.
\*   ok         : makedirs, open and json.dump all succeed
\*   open_fails : makedirs or open(path, "w") raises; the file is untouched
\*   dump_fails : open has truncated the file, then json.dump or the
\*                closing flush raises (or the process dies) after
\*                .written tokens of the text, and before the last one
WriteOutcomes ==
  {[kind |-> k, written |-> 0] : k \in {"ok", "open_fails"}}
    \cup {[kind |-> "dump_fails", written |-> n] : n \in 0..(2 * MaxLog)}

VARIABLES
  file,      \* content of wellness_log.json
  clock,     \* what the next datetime.now() returns; every call returns a
             \* later instant than the one before
  status,    \* per session: "idle" (not started), "active", "crashed", "closed"
  userdata,  \* per session: the Userdata bound to the AgentSession
  ret,       \* outcome of the last tool call or entrypoint run
  saved,     \* per session: how often the "Saved check-in" line was printed
  faults,    \* how many writes of the log have failed
  saving     \* per session, for a save that other processes can interleave
             \* with: how far save_checkin_entry has got, the history it
             \* loaded and the record it built

vars == <<file, clock, status, userdata, ret, saved, faults, saving>>

\* ------------------------------------------------------- outcomes of calls
Return(v) == [raised |-> FALSE, value |-> v]
Raise(e) == [raised |-> TRUE, value |-> e]

\* str() of a value inside an f-string.
Str(v) == IF v = None THEN "None" ELSE v

\* ', '.join(seq)
RECURSIVE Join(_)
Join(seq) ==
  IF Len(seq) = 0 THEN ""
  ELSE IF Len(seq) = 1 THEN seq[1]
  ELSE seq[1] \o ", " \o Join(Tail(seq))

\* all([...])
All(bools) == \A i \in DOMAIN bools : bools[i]

\* ------------------------------------------------------------ CheckInState
NewCheckInState ==
  [mood |-> None, energy |-> None, objectives |-> <<>>, advice_given |-> None]

\* is_complete as it would be if the summary were one of the required fields.
is_complete_needs_advice(self) ==
  All(<< self.mood # None,
         self.energy # None,
         Len(self.objectives) > 0,
         self.advice_given # None >>)

is_complete(self) ==
  All(<< self.mood # None,
         self.energy # None,
         Len(self.objectives) > 0 >>)

NewUserdata(history_summary, now) ==
  [current_checkin |-> NewCheckInState,
   history_summary |-> history_summary,
   session_start |-> now]

NoUserdata == NewUserdata("", 0)

\* ------------------------------------------------------------- persistence
\* The text json.dump writes for a list, as its sequence of tokens:
\* "[", the elements separated by ",", "]".
Token(t, v) == [t |-> t, v |-> v]

RECURSIVE Elements(_)
Elements(list) ==
  IF Len(list) = 0 THEN <<>>
  ELSE IF Len(list) = 1 THEN <<Token("elem", list[1])>>
  ELSE <<Token("elem", list[1]), Token("comma", <<>>)>> \o Elements(Tail(list))

json_dump(list) ==
  <<Token("open", <<>>)>> \o Elements(list) \o <<Token("close", <<>>)>>

\* json.load of a text of such tokens: the list, or JSONDecodeError when the
\* text is not one complete document.
json_load(text) ==
  LET n == Len(text)
      wellformed ==
        /\ n >= 2
        /\ text[1].t = "open"
        /\ text[n].t = "close"
        /\ n = 2 \/ n % 2 = 1
        /\ \A i \in 2..(n - 1) :
             text[i].t = IF i % 2 = 0 THEN "elem" ELSE "comma"
  IN  IF wellformed
        THEN Return([i \in 1..((n - 1) \div 2) |-> text[2 * i].v])
        ELSE Raise("JSONDecodeError")

\* The file that holds the text: the model keeps of a file what json.load
\* makes of it.
FileWith(text) ==
  LET loaded == json_load(text)
  IN  IF loaded.raised THEN [kind |-> "corrupt", data |-> <<>>]
      ELSE [kind |-> "list", data |-> loaded.value]

\* What is in the file when the write stops after outcome.written tokens.
PartialText(text, outcome) ==
  SubSeq(text, 1, IF outcome.written < Len(text) THEN outcome.written
                  ELSE Len(text) - 1)

\* load_history as it would be without the try/except around json.load.
load_history_unguarded(f) ==
  IF f.kind = "missing" THEN Return(<<>>)
  ELSE IF f.kind = "corrupt" THEN Raise("JSONDecodeError")
  ELSE IF f.kind = "list" THEN Return(f.data)
  ELSE Return(<<>>)

load_history(f) ==
  IF f.kind = "missing" THEN Return(<<>>)
  ELSE IF f.kind = "corrupt" THEN Return(<<>>)   \* json.load raised: except
  ELSE IF f.kind = "list" THEN Return(f.data)
  ELSE Return(<<>>)

NewRecord(entry, now) ==
  [timestamp |-> now,
   mood |-> entry.mood,
   energy |-> entry.energy,
   objectives |-> entry.objectives,
   summary |-> entry.advice_given]

\* save_checkin_entry as it would be if it wrote the new record alone.
save_checkin_entry_overwrite(f, entry, now, outcome) ==
  LET record == NewRecord(entry, now)
      text == json_dump(<<record>>)
  IN  IF outcome.kind = "open_fails" THEN [raised |-> TRUE, file |-> f]
      ELSE IF outcome.kind = "dump_fails"
        THEN [raised |-> TRUE, file |-> FileWith(PartialText(text, outcome))]
      ELSE [raised |-> FALSE, file |-> FileWith(text)]

\* save_checkin_entry as it would be if it kept what an unreadable file held
\* as the first element of the new log.
save_checkin_entry_keeps_unreadable(f, entry, now, outcome) ==
  LET history == IF f.kind \in {"corrupt", "nonlist"} THEN <<LegacyElement>>
                 ELSE load_history(f).value
      record == NewRecord(entry, now)
      text == json_dump(Append(history, record))
  IN  IF outcome.kind = "open_fails" THEN [raised |-> TRUE, file |-> f]
      ELSE IF outcome.kind = "dump_fails"
        THEN [raised |-> TRUE, file |-> FileWith(PartialText(text, outcome))]
      ELSE [raised |-> FALSE, file |-> FileWith(text)]

\* The result of save_checkin_entry: whether it raised, and the file it left.
save_checkin_entry(f, entry, now, outcome) ==
  LET history == load_history(f).value
      record == NewRecord(entry, now)
      appended == Append(history, record)
      text == json_dump(appended)
  IN  IF outcome.kind = "open_fails" THEN [raised |-> TRUE, file |-> f]
      ELSE IF outcome.kind = "dump_fails"
        THEN [raised |-> TRUE, file |-> FileWith(PartialText(text, outcome))]
      ELSE [raised |-> FALSE, file |-> FileWith(text)]

\* --------------------------------------------------------------- the tools
CorrectiveMessage ==
  "I still need your mood, energy, and at least one goal before finishing."

\* The texts the tools return, without their typographic decoration.
MoodAck(mood, energy) ==
  "Got it - you're feeling " \o mood \o " with " \o energy \o " energy."

ObjectivesAck == "I've noted down your goals for today."

Recap(state, final_advice_summary) ==
  "Mood: " \o Str(state.mood) \o " Energy: " \o Str(state.energy)
    \o " Goals: " \o Join(state.objectives)
    \o " Reminder: " \o final_advice_summary
    \o " Your check-in has been saved."

\* record_mood_and_energy as it would be if it stored the mood alone.
record_mood_and_energy_mood_only(s, mood, energy) ==
  /\ status[s] = "active"
  /\ userdata' = [userdata EXCEPT ![s].current_checkin.mood = mood]
  /\ ret' = [tool |-> "record_mood_and_energy", raised |-> FALSE,
             value |-> MoodAck(mood, energy)]
  /\ UNCHANGED <<file, clock, status, saved, faults, saving>>

record_mood_and_energy(s, mood, energy) ==
  /\ status[s] = "active"
  /\ userdata' = [userdata EXCEPT ![s].current_checkin.mood = mood,
                                  ![s].current_checkin.energy = energy]
  /\ ret' = [tool |-> "record_mood_and_energy", raised |-> FALSE,
             value |-> MoodAck(mood, energy)]
  /\ UNCHANGED <<file, clock, status, saved, faults, saving>>

\* record_objectives as it would be if it extended the list it finds.
record_objectives_extend(s, objectives) ==
  /\ status[s] = "active"
  /\ userdata' = [userdata EXCEPT
                    ![s].current_checkin.objectives = @ \o objectives]
  /\ ret' = [tool |-> "record_objectives", raised |-> FALSE,
             value |-> ObjectivesAck]
  /\ UNCHANGED <<file, clock, status, saved, faults, saving>>

record_objectives(s, objectives) ==
  /\ status[s] = "active"
  /\ userdata' = [userdata EXCEPT ![s].current_checkin.objectives = objectives]
  /\ ret' = [tool |-> "record_objectives", raised |-> FALSE,
             value |-> ObjectivesAck]
  /\ UNCHANGED <<file, clock, status, saved, faults, saving>>

\* ReturnCorrective as it would be if a rejected completion dropped the
\* summary again.
ReturnCorrective_clears(s, state) ==
  /\ userdata' = [userdata EXCEPT
                    ![s].current_checkin = [state EXCEPT !.advice_given = None]]
  /\ ret' = [tool |-> "complete_checkin", raised |-> FALSE,
             value |-> CorrectiveMessage]
  /\ UNCHANGED <<file, clock, saved, faults>>

\* complete_checkin, lines 143-144: the early return of the incomplete case.
ReturnCorrective(s, state) ==
  /\ userdata' = [userdata EXCEPT ![s].current_checkin = state]
  /\ ret' = [tool |-> "complete_checkin", raised |-> FALSE,
             value |-> CorrectiveMessage]
  /\ UNCHANGED <<file, clock, saved, faults>>

\* WriteTime as it would be if the record were stamped with the creation
\* time of the session.
WriteTime_session_start(s) == userdata[s].session_start

\* datetime.now() in save_checkin_entry, taken when the record is built.
WriteTime(s) == clock

\* SaveAndRecap as it would be if it caught the exception of the write and
\* went on to the recap.
SaveAndRecap_swallows(s, state, final_advice_summary) ==
  /\ userdata' = [userdata EXCEPT ![s].current_checkin = state]
  /\ Len(load_history(file).value) < MaxLog
  /\ \E outcome \in WriteOutcomes :
       LET w == save_checkin_entry(file, state, WriteTime(s), outcome)
       IN  /\ w.raised => faults < MaxFaults
           /\ faults' = IF w.raised THEN faults + 1 ELSE faults
           /\ clock' = clock + 1
           /\ file' = w.file
           /\ ret' = [tool |-> "complete_checkin", raised |-> FALSE,
                      value |-> Recap(state, final_advice_summary)]
           /\ IF w.raised THEN UNCHANGED saved
              ELSE saved' = [saved EXCEPT ![s] = @ + 1]

\* SaveAndRecap as it would be if a saved check-in were reset for the next.
SaveAndRecap_resets(s, state, final_advice_summary) ==
  /\ Len(load_history(file).value) < MaxLog
  /\ \E outcome \in WriteOutcomes :
       LET w == save_checkin_entry(file, state, WriteTime(s), outcome)
       IN  /\ w.raised => faults < MaxFaults
           /\ faults' = IF w.raised THEN faults + 1 ELSE faults
           /\ clock' = clock + 1
           /\ file' = w.file
           /\ IF w.raised
                THEN /\ ret' = [tool |-> "complete_checkin", raised |-> TRUE,
                                value |-> "OSError"]
                     /\ userdata' = [userdata EXCEPT
                                       ![s].current_checkin = state]
                     /\ UNCHANGED saved
                ELSE /\ ret' = [tool |-> "complete_checkin", raised |-> FALSE,
                                value |-> Recap(state, final_advice_summary)]
                     /\ userdata' = [userdata EXCEPT
                                       ![s].current_checkin = NewCheckInState]
                     /\ saved' = [saved EXCEPT ![s] = @ + 1]

\* complete_checkin, lines 146-157: save the entry, then return the recap.
\* An exception of the write leaves complete_checkin before the recap.
SaveAndRecap(s, state, final_advice_summary) ==
  /\ userdata' = [userdata EXCEPT ![s].current_checkin = state]
  /\ Len(load_history(file).value) < MaxLog
  /\ \E outcome \in WriteOutcomes :
       LET w == save_checkin_entry(file, state, WriteTime(s), outcome)
       IN  /\ w.raised => faults < MaxFaults
           /\ faults' = IF w.raised THEN faults + 1 ELSE faults
           /\ clock' = clock + 1
           /\ file' = w.file
           /\ IF w.raised
                THEN /\ ret' = [tool |-> "complete_checkin", raised |-> TRUE,
                                value |-> "OSError"]
                     /\ UNCHANGED saved
                ELSE /\ ret' = [tool |-> "complete_checkin", raised |-> FALSE,
                                value |-> Recap(state, final_advice_summary)]
                     /\ saved' = [saved EXCEPT ![s] = @ + 1]

\* The CheckInState complete_checkin evaluates: advice_given is set first.
WithAdvice(s, final_advice_summary) ==
  [userdata[s].current_checkin EXCEPT !.advice_given = final_advice_summary]

\* complete_checkin as it would be without the completeness check.
complete_checkin_unchecked(s, final_advice_summary) ==
  /\ status[s] = "active"
  /\ SaveAndRecap(s, WithAdvice(s, final_advice_summary), final_advice_summary)
  /\ UNCHANGED <<status, saving>>

\* complete_checkin as it would be with a guard against saving twice.
complete_checkin_once(s, final_advice_summary) ==
  /\ status[s] = "active"
  /\ LET state == WithAdvice(s, final_advice_summary)
     IN  IF ~is_complete(state)
           THEN ReturnCorrective(s, state)
           ELSE IF saved[s] >= 1
             THEN /\ userdata' = [userdata EXCEPT ![s].current_checkin = state]
                  /\ ret' = [tool |-> "complete_checkin", raised |-> FALSE,
                             value |-> Recap(state, final_advice_summary)]
                  /\ UNCHANGED <<file, clock, saved, faults>>
             ELSE SaveAndRecap(s, state, final_advice_summary)
  /\ UNCHANGED <<status, saving>>

complete_checkin(s, final_advice_summary) ==
  /\ status[s] = "active"
  /\ LET state == WithAdvice(s, final_advice_summary)
     IN  IF ~is_complete(state)
           THEN ReturnCorrective(s, state)
           ELSE SaveAndRecap(s, state, final_advice_summary)
  /\ UNCHANGED <<status, saving>>

\* -------------------------------------------------------------- entrypoint
HistoryKeys == {"timestamp", "mood", "energy", "objectives"}

\* summarize as it would be if it described the oldest record.
summarize_first(history) ==
  IF Len(history) = 0 THEN Return("No previous sessions yet.")
  ELSE LET last == history[1]
       IN  IF ~(HistoryKeys \subseteq DOMAIN last) THEN Raise("KeyError")
           ELSE Return("Last check-in on " \o ToString(last.timestamp) \o ". "
                         \o "Mood was " \o Str(last.mood)
                         \o ", energy " \o Str(last.energy) \o ". "
                         \o "Goals: " \o Join(last.objectives) \o ".")

\* The history summary entrypoint builds; last[k] raises when k is missing.
summarize(history) ==
  IF Len(history) = 0 THEN Return("No previous sessions yet.")
  ELSE LET last == history[Len(history)]
       IN  IF ~(HistoryKeys \subseteq DOMAIN last) THEN Raise("KeyError")
           ELSE Return("Last check-in on " \o ToString(last.timestamp) \o ". "
                         \o "Mood was " \o Str(last.mood)
                         \o ", energy " \o Str(last.energy) \o ". "
                         \o "Goals: " \o Join(last.objectives) \o ".")

\* entrypoint as it would be if it wrote the loaded history back.
entrypoint_rewrites(s) ==
  /\ status[s] = "idle"
  /\ LET history == load_history(file)
         summary == IF history.raised THEN history ELSE summarize(history.value)
     IN  /\ file' = [kind |-> "list", data |-> history.value]
         /\ IF summary.raised
              THEN /\ status' = [status EXCEPT ![s] = "crashed"]
                   /\ ret' = [tool |-> "entrypoint", raised |-> TRUE,
                              value |-> summary.value]
                   /\ UNCHANGED <<userdata, clock>>
              ELSE /\ status' = [status EXCEPT ![s] = "active"]
                   /\ userdata' = [userdata EXCEPT
                                     ![s] = NewUserdata(summary.value, clock)]
                   /\ clock' = clock + 1
                   /\ ret' = [tool |-> "entrypoint", raised |-> FALSE,
                              value |-> summary.value]
  /\ UNCHANGED <<saved, faults, saving>>

entrypoint(s) ==
  /\ status[s] = "idle"
  /\ LET history == load_history(file)
         summary == IF history.raised THEN history ELSE summarize(history.value)
     IN  IF summary.raised
           THEN /\ status' = [status EXCEPT ![s] = "crashed"]
                /\ ret' = [tool |-> "entrypoint", raised |-> TRUE,
                           value |-> summary.value]
                /\ UNCHANGED <<userdata, clock>>
           ELSE /\ status' = [status EXCEPT ![s] = "active"]
                /\ userdata' = [userdata EXCEPT
                                  ![s] = NewUserdata(summary.value, clock)]
                /\ clock' = clock + 1
                /\ ret' = [tool |-> "entrypoint", raised |-> FALSE,
                           value |-> summary.value]
  /\ UNCHANGED <<file, saved, faults, saving>>

\* ------------------------------------- a save that others interleave with
\* When every session runs in a worker process of its own, the steps of
\* save_checkin_entry of one process interleave with those of another:
\* load_history (line 91), open(path, "w") (line 104), which truncates the
\* file, and json.dump with the close (line 105).
\* .raced records whether another save was under way at any moment of it.
NotSaving ==
  [pc |-> "idle", history |-> <<>>, record |-> NewRecord(NewCheckInState, 0),
   raced |-> FALSE]

OthersSaving(s) == {o \in Sessions \ {s} : saving[o].pc # "idle"}

\* complete_checkin up to the record save_checkin_entry builds.
begin_save(s, final_advice_summary) ==
  /\ status[s] = "active"
  /\ saving[s].pc = "idle"
  /\ LET state == WithAdvice(s, final_advice_summary)
     IN  /\ is_complete(state)
         /\ Len(load_history(file).value) < MaxLog
         /\ userdata' = [userdata EXCEPT ![s].current_checkin = state]
         /\ saving' = [o \in Sessions |->
                         IF o = s
                           THEN [pc |-> "loaded",
                                 history |-> load_history(file).value,
                                 record |-> NewRecord(state, WriteTime(s)),
                                 raced |-> OthersSaving(s) # {}]
                         ELSE IF o \in OthersSaving(s)
                           THEN [saving[o] EXCEPT !.raced = TRUE]
                         ELSE saving[o]]
  /\ clock' = clock + 1
  /\ UNCHANGED <<file, status, ret, saved, faults>>

\* truncate_step as it would be if the history were loaded again here.
truncate_step_reloads(s) ==
  /\ saving[s].pc = "loaded"
  /\ saving' = [saving EXCEPT ![s].pc = "truncated",
                              ![s].history = load_history(file).value]
  /\ file' = FileWith(<<>>)
  /\ UNCHANGED <<clock, status, userdata, ret, saved, faults>>

\* open(path, "w"): the file is empty until the text is written.
truncate_step(s) ==
  /\ saving[s].pc = "loaded"
  /\ saving' = [saving EXCEPT ![s].pc = "truncated"]
  /\ file' = FileWith(<<>>)
  /\ UNCHANGED <<clock, status, userdata, ret, saved, faults>>

\* json.dump and the close, then the rest of complete_checkin.
dump_step(s) ==
  /\ saving[s].pc = "truncated"
  /\ file' = FileWith(json_dump(Append(saving[s].history, saving[s].record)))
  /\ saving' = [saving EXCEPT ![s].pc = "idle"]
  /\ saved' = [saved EXCEPT ![s] = @ + 1]
  /\ ret' = [tool |-> "complete_checkin", raised |-> FALSE,
             value |-> Recap(userdata[s].current_checkin,
                             userdata[s].current_checkin.advice_given)]
  /\ UNCHANGED <<clock, status, userdata, faults>>

\* The room closes: the AgentSession and its Userdata are dropped.
close(s) ==
  /\ status[s] = "active"
  /\ status' = [status EXCEPT ![s] = "closed"]
  /\ userdata' = [userdata EXCEPT ![s] = NoUserdata]
  /\ saved' = [saved EXCEPT ![s] = 0]
  /\ UNCHANGED <<file, clock, ret, faults, saving>>

\* ----------------------------------------------------------- specification
Init ==
  /\ file \in InitialFiles
  /\ clock = 1
  /\ status = [s \in Sessions |-> "idle"]
  /\ userdata = [s \in Sessions |-> NoUserdata]
  /\ ret = [tool |-> "none", raised |-> FALSE, value |-> ""]
  /\ saved = [s \in Sessions |-> 0]
  /\ faults = 0
  /\ saving = [s \in Sessions |-> NotSaving]

\* The deployment is single-session: a job starts when no other is running.
NoSessionRunning == \A s \in Sessions : status[s] # "active"

start_job(s) == NoSessionRunning /\ entrypoint(s)

Next ==
  \/ \E s \in Sessions : start_job(s)
  \/ \E s \in Sessions, args \in MoodEnergyArgs :
       record_mood_and_energy(s, args[1], args[2])
  \/ \E s \in Sessions, objectives \in ObjectiveLists :
       record_objectives(s, objectives)
  \/ \E s \in Sessions, summary \in Summaries : complete_checkin(s, summary)
  \/ \E s \in Sessions : close(s)

Spec == Init /\ [][Next]_vars

\* One worker process per session, each session saving once: the tools of
\* a session wait while its save is under way.
NotInSave(s) == saving[s].pc = "idle"

race_start(s) == entrypoint(s)

race_record_mood_and_energy(s, mood, energy) ==
  NotInSave(s) /\ record_mood_and_energy(s, mood, energy)

race_record_objectives(s, objectives) ==
  NotInSave(s) /\ record_objectives(s, objectives)

race_rejected_complete(s, summary) ==
  NotInSave(s) /\ ~is_complete(WithAdvice(s, summary))
    /\ complete_checkin(s, summary)

race_begin_save(s, summary) == saved[s] = 0 /\ begin_save(s, summary)

NextRace ==
  \/ \E s \in Sessions : race_start(s)
  \/ \E s \in Sessions, args \in MoodEnergyArgs :
       race_record_mood_and_energy(s, args[1], args[2])
  \/ \E s \in Sessions, objectives \in ObjectiveLists :
       race_record_objectives(s, objectives)
  \/ \E s \in Sessions, summary \in Summaries :
       race_rejected_complete(s, summary)
  \/ \E s \in Sessions, summary \in Summaries : race_begin_save(s, summary)
  \/ \E s \in Sessions : truncate_step(s)
  \/ \E s \in Sessions : dump_step(s)

SpecRace == Init /\ [][NextRace]_vars

\* The worker started on a log that is missing or empty.
InitFresh ==
  /\ Init
  /\ file \in {[kind |-> "missing", data |-> <<>>],
               [kind |-> "list", data |-> <<>>]}

SpecFresh == InitFresh /\ [][Next]_vars

\* ------------------------------------------------------------------ claims
\* What load_history returns for the file as it is now.
History == load_history(file).value

CheckIn(s) == userdata[s].current_checkin

Active(s) == status[s] = "active"

\* C1: in every reachable CheckInState is_complete() is true exactly when
\* mood is set, energy is set and objectives has at least one element, and
\* it is the same whatever advice_given holds.
C1_IsCompleteIff ==
  \A s \in Sessions :
    LET c == CheckIn(s)
    IN  /\ is_complete(c) <=>
             (c.mood # None /\ c.energy # None /\ Len(c.objectives) >= 1)
        /\ \A a \in Summaries \cup {None} :
             is_complete([c EXCEPT !.advice_given = a]) <=> is_complete(c)

\* A check-in that is complete although no advice has been given yet.
C1_Witness ==
  \E s \in Sessions :
    /\ Active(s)
    /\ CheckIn(s).mood = "happy" /\ CheckIn(s).energy = "high"
    /\ CheckIn(s).objectives = <<"read", "walk">>
    /\ CheckIn(s).advice_given = None
    /\ is_complete(CheckIn(s))

\* C2: a complete_checkin call made while is_complete() is false leaves
\* the log file as it was, raises nothing and returns the corrective
\* message, in whatever state the call is made.
C2_RejectedCompleteIsNoOp ==
  [][\A s \in Sessions, t \in Summaries :
       (complete_checkin(s, t) /\ ~is_complete(WithAdvice(s, t)))
         => /\ file' = file
            /\ ~ret'.raised
            /\ ret'.value = CorrectiveMessage
            /\ ret'.value # Recap(WithAdvice(s, t), t)]_vars

\* A rejected completion in a session that has saved a check-in before.
C2_Witness ==
  \E s \in Sessions :
    /\ Active(s)
    /\ saved[s] = 1
    /\ Len(History) = 1
    /\ ~is_complete(CheckIn(s))
    /\ ret = [tool |-> "complete_checkin", raised |-> FALSE,
              value |-> CorrectiveMessage]

\* C3: a complete_checkin call made while is_complete() holds and whose
\* write succeeds makes the loaded history one longer, keeps what was
\* loaded before, and the new last record carries the mood, energy and
\* objectives of the CheckInState at the call and the summary passed.
C3_CompleteAppendsOneRecord ==
  [][\A s \in Sessions, t \in Summaries :
       (complete_checkin(s, t) /\ is_complete(WithAdvice(s, t)) /\ ~ret'.raised)
         => LET before == load_history(file).value
                after == load_history(file').value
                last == after[Len(after)]
            IN  /\ Len(after) = Len(before) + 1
                /\ last.mood = CheckIn(s).mood
                /\ last.energy = CheckIn(s).energy
                /\ last.objectives = CheckIn(s).objectives
                /\ last.summary = t
                /\ last.summary = CheckIn(s).advice_given']_vars

\* A check-in saved behind a record that was in the log already.
C3_Witness ==
  \E s \in Sessions :
    /\ saved[s] = 1
    /\ Len(History) = 2
    /\ History[1] = OldRecord
    /\ History[2].mood = "happy"
    /\ History[2].objectives = <<"read", "walk">>
    /\ History[2].summary = "Keep it up!"
    /\ ret.tool = "complete_checkin" /\ ~ret.raised

IsPrefix(a, b) ==
  Len(a) <= Len(b) /\ \A i \in 1..Len(a) : a[i] = b[i]

\* C4: the history is append-only: whatever load_history returned before a
\* step is a prefix of what it returns after it, so no record is removed
\* or changed.
C4_AppendOnly ==
  [][IsPrefix(load_history(file).value, load_history(file').value)]_vars

\* C5: load_history never raises; for a file that is missing, unparsable
\* or not a list it returns the empty list; and a session start, which
\* calls it, leaves the file as it was and does not fail on such a file.
C5_LoadHistoryNeverFails ==
  [][\A s \in Sessions :
       entrypoint(s)
         => /\ file' = file
            /\ ~load_history(file).raised
            /\ file.kind \in {"missing", "corrupt", "nonlist"}
                 => /\ load_history(file).value = <<>>
                    /\ ~ret'.raised
                    /\ Active(s)'
                    /\ userdata'[s].history_summary
                         = "No previous sessions yet."]_vars

\* A session started on a file that does not parse.
C5_Witness ==
  \E s \in Sessions :
    /\ file.kind = "corrupt"
    /\ Active(s)
    /\ ret = [tool |-> "entrypoint", raised |-> FALSE,
              value |-> "No previous sessions yet."]

\* C6: starting a session never fails, whatever the log file holds.
C6_StartNeverFails ==
  /\ \A s \in Sessions : status[s] # "crashed"
  /\ ~(ret.tool = "entrypoint" /\ ret.raised)

\* C7: no session writes more than one record to the log.
C7_AtMostOneWritePerSession ==
  \A s \in Sessions : saved[s] <= 1

\* The records of the log written since session s started.
WrittenSince(s) ==
  {i \in DOMAIN History :
     /\ "timestamp" \in DOMAIN History[i]
     /\ History[i].timestamp >= userdata[s].session_start}

\* C8: nothing guards against saving twice: a complete_checkin call made
\* after the session has saved already, with is_complete() holding and the
\* write succeeding, appends one more record; while no write has failed,
\* the log holds as many records of the session as it had such calls.
C8_EveryCompleteAppends ==
  /\ [](\A s \in Sessions :
          (Active(s) /\ faults = 0) => Cardinality(WrittenSince(s)) = saved[s])
  /\ [][\A s \in Sessions, t \in Summaries :
          (/\ complete_checkin(s, t)
           /\ saved[s] >= 1
           /\ is_complete(WithAdvice(s, t))
           /\ ~ret'.raised)
            => /\ Len(load_history(file').value)
                    = Len(load_history(file).value) + 1
               /\ saved'[s] = saved[s] + 1]_vars

\* One session has saved the same check-in twice.
C8_Witness ==
  \E s \in Sessions :
    /\ Active(s)
    /\ saved[s] = 2
    /\ Len(History) = 2
    /\ History[1].timestamp < History[2].timestamp
    /\ [History[1] EXCEPT !.timestamp = 0] = [History[2] EXCEPT !.timestamp = 0]

\* C9: the log file changes only in a complete_checkin call made while
\* is_complete() holds: not in record_mood_and_energy, record_objectives,
\* a session start, a rejected complete_checkin or the end of a session.
\* A session that has not read the clock since it started has attempted no
\* write; the summary it was given is then still that of the log.
C9_OnlyCompleteWrites ==
  /\ [][file' # file
          => \E s \in Sessions, t \in Summaries :
               /\ Active(s)
               /\ complete_checkin(s, t)
               /\ is_complete(WithAdvice(s, t))]_vars
  /\ [](\A s \in Sessions :
          (Active(s) /\ clock = userdata[s].session_start + 1)
            => userdata[s].history_summary = summarize(History).value)

\* A session that set fields, had a completion rejected and ended without
\* any write attempted: the log is the one it started with.
C9_Witness ==
  \E s \in Sessions :
    /\ status[s] = "closed"
    /\ \A o \in Sessions \ {s} : status[o] = "idle"
    /\ clock = 2
    /\ ret = [tool |-> "complete_checkin", raised |-> FALSE,
              value |-> CorrectiveMessage]
    /\ file = [kind |-> "list", data |-> <<OldRecord>>]

\* C10: record_mood_and_energy sets mood and energy to its arguments and
\* record_objectives sets objectives to exactly the list passed; each
\* leaves the other fields of the check-in, and every other session's
\* check-in, as they were.
C10_LastWriteWins ==
  [][\A s \in Sessions :
       /\ \A args \in MoodEnergyArgs :
            record_mood_and_energy(s, args[1], args[2])
              => /\ CheckIn(s)' = [CheckIn(s) EXCEPT !.mood = args[1],
                                                      !.energy = args[2]]
                 /\ \A o \in Sessions \ {s} : userdata'[o] = userdata[o]
       /\ \A objectives \in ObjectiveLists :
            record_objectives(s, objectives)
              => /\ CheckIn(s)' = [CheckIn(s) EXCEPT !.objectives = objectives]
                 /\ \A o \in Sessions \ {s} : userdata'[o] = userdata[o]]_vars

\* A session that saved "happy" with <<"read">> and now holds "stressed"
\* with <<"read", "walk">>: both were overwritten, nothing was merged.
C10_Witness ==
  \E s \in Sessions :
    /\ Active(s)
    /\ saved[s] = 1
    /\ Len(History) = 1
    /\ History[1].mood = "happy" /\ History[1].energy = "high"
    /\ History[1].objectives = <<"read">>
    /\ CheckIn(s).mood = "stressed" /\ CheckIn(s).energy = "low"
    /\ CheckIn(s).objectives = <<"read", "walk">>
    /\ ret.tool = "record_objectives"

\* C11: when the write of an accepted complete_checkin fails, the exception
\* leaves complete_checkin: neither the recap nor the corrective message
\* is returned, nothing counts as saved, and the write is not tried again
\* (the clock is read once, and the file is as it was or as the one failed
\* write left it).
C11_WriteFailurePropagates ==
  [][\A s \in Sessions, t \in Summaries :
       (complete_checkin(s, t) /\ faults' # faults)
         => /\ faults' = faults + 1
            /\ ret'.tool = "complete_checkin"
            /\ ret'.raised
            /\ ret'.value # Recap(WithAdvice(s, t), t)
            /\ ret'.value # CorrectiveMessage
            /\ saved' = saved
            /\ clock' = clock + 1
            /\ file' = file \/ file'.kind = "corrupt"]_vars

\* A complete_checkin whose write failed.
C11_Witness ==
  \E s \in Sessions :
    /\ Active(s) /\ is_complete(CheckIn(s))
    /\ faults = 1
    /\ ret = [tool |-> "complete_checkin", raised |-> TRUE, value |-> "OSError"]

NoPreviousSessions == "No previous sessions yet."

\* The text the claim expects for a log whose last record is r.
ExpectedSummary(r) ==
  "Last check-in on " \o ToString(r.timestamp)
    \o ". Mood was " \o r.mood \o ", energy " \o r.energy
    \o ". Goals: " \o Join(r.objectives) \o "."

\* C12: the history summary a session is given at its start is the fixed
\* no-previous-sessions text exactly when the loaded history is empty, and
\* otherwise the text made of the timestamp, mood, energy and comma-joined
\* objectives of the last record of the log.
C12_SummaryOfLastRecord ==
  [][\A s \in Sessions :
       (entrypoint(s) /\ Active(s)')
         => LET history == load_history(file).value
                bound == userdata'[s].history_summary
            IN  /\ bound = NoPreviousSessions <=> Len(history) = 0
                /\ Len(history) > 0
                     => bound = ExpectedSummary(history[Len(history)])]_vars

\* A session started after another one saved its check-in behind an older
\* record: its summary is that of the new record.
C12_Witness ==
  \E s \in Sessions, o \in Sessions :
    /\ status[o] = "closed"
    /\ Active(s) /\ saved[s] = 0
    /\ Len(History) = 2
    /\ History[1] = OldRecord
    /\ History[2].timestamp = 2
    /\ userdata[s].history_summary
         = "Last check-in on 2. Mood was happy, energy high. Goals: read, walk."

\* C14: complete_checkin sets advice_given to the summary passed, whether
\* the completion is then rejected, saved or fails in the write, and
\* changes nothing else of the CheckInState: a rejected call leaves the
\* summary set, an accepted one leaves the check-in complete.
C14_CompleteSetsOnlyAdvice ==
  [][\A s \in Sessions, t \in Summaries :
       complete_checkin(s, t)
         => /\ CheckIn(s)' = [CheckIn(s) EXCEPT !.advice_given = t]
            /\ is_complete(WithAdvice(s, t)) => is_complete(CheckIn(s)')
            /\ \A o \in Sessions \ {s} : userdata'[o] = userdata[o]]_vars

\* After a rejected completion the summary is still set.
C14_Witness ==
  \E s \in Sessions :
    /\ Active(s)
    /\ ~is_complete(CheckIn(s))
    /\ CheckIn(s).mood = "happy" /\ CheckIn(s).objectives = <<>>
    /\ CheckIn(s).advice_given = "Keep it up!"
    /\ ret = [tool |-> "complete_checkin", raised |-> FALSE,
              value |-> CorrectiveMessage]

\* C15: after a write that failed or stopped part-way, load_history
\* returns the whole log as it was, the whole log with the new record, or
\* the empty list; it never raises and never returns some of the records.
C15_NoPartialHistory ==
  [][\A s \in Sessions, t \in Summaries :
       (complete_checkin(s, t) /\ ret'.raised)
         => LET before == load_history(file).value
                record == NewRecord(WithAdvice(s, t), clock)
            IN  /\ ~load_history(file').raised
                /\ load_history(file').value
                     \in {before, Append(before, record), <<>>}]_vars

\* A session that started on a log holding OldRecord; a write of it stopped
\* part-way, and the file no longer parses.
C15_Witness ==
  \E s \in Sessions :
    /\ Active(s)
    /\ userdata[s].history_summary = ExpectedSummary(OldRecord)
    /\ file.kind = "corrupt"
    /\ History = <<>>
    /\ ret = [tool |-> "complete_checkin", raised |-> TRUE, value |-> "OSError"]

\* C17: when the file exists and is unparsable or not a list, an accepted
\* complete_checkin whose write succeeds leaves a log of exactly one
\* record, the new one.
C17_UnreadableFileIsReplaced ==
  [][\A s \in Sessions, t \in Summaries :
       (/\ complete_checkin(s, t)
        /\ is_complete(WithAdvice(s, t))
        /\ file.kind \in {"corrupt", "nonlist"})
         => \/ ret'.raised /\ faults' = faults + 1
            \/ /\ ~ret'.raised
               /\ file' = [kind |-> "list",
                           data |-> <<NewRecord(WithAdvice(s, t), clock)>>]]_vars

\* A session saved twice, a write stopped part-way, and the log now holds
\* one record: the one saved after the file had become unparsable.
C17_Witness ==
  \E s \in Sessions :
    /\ Active(s)
    /\ saved[s] = 2
    /\ faults = 1
    /\ file.kind = "list" /\ Len(file.data) = 1
    /\ ret.tool = "complete_checkin" /\ ~ret.raised

\* C19: in every CheckInState mood is None exactly when energy is None.
C19_MoodAndEnergyTogether ==
  \A s \in Sessions : CheckIn(s).mood = None <=> CheckIn(s).energy = None

\* record_mood_and_energy has set both.
C19_Witness ==
  \E s \in Sessions :
    /\ Active(s)
    /\ CheckIn(s).mood = "stressed" /\ CheckIn(s).energy = "low"
    /\ ret.tool = "record_mood_and_energy"

\* C20: while a session lasts, mood and energy stay set once they are
\* set, and is_complete() turns from true to false only in a
\* record_objectives call with an empty list.
C20_CompletenessLostOnlyByEmptyObjectives ==
  [][\A s \in Sessions :
       (Active(s) /\ Active(s)')
         => /\ CheckIn(s).mood # None => CheckIn(s)'.mood # None
            /\ CheckIn(s).energy # None => CheckIn(s)'.energy # None
            /\ (is_complete(CheckIn(s)) /\ ~is_complete(CheckIn(s)'))
                 => record_objectives(s, <<>>)]_vars

\* A check-in that was complete (it was saved) and no longer is, after
\* record_objectives with an empty list.
C20_Witness ==
  \E s \in Sessions :
    /\ Active(s)
    /\ saved[s] = 1
    /\ CheckIn(s).mood # None /\ CheckIn(s).energy # None
    /\ CheckIn(s).objectives = <<>>
    /\ ~is_complete(CheckIn(s))
    /\ ret.tool = "record_objectives"

\* C18: when the log was empty or missing at the start, every record in it
\* has a mood, an energy, at least one objective and a summary.
C18_WrittenRecordsAreComplete ==
  file.kind = "list"
    => \A i \in DOMAIN file.data :
         /\ file.data[i].mood # None
         /\ file.data[i].energy # None
         /\ Len(file.data[i].objectives) >= 1
         /\ file.data[i].summary # None

\* Two sessions have each written a record to a log that was missing.
C18_Witness ==
  /\ file.kind = "list" /\ Len(file.data) = 2
  /\ file.data[1].mood = "happy" /\ file.data[2].mood = "stressed"
  /\ \E s \in Sessions : status[s] = "closed"
  /\ \E s \in Sessions : Active(s) /\ saved[s] = 1

\* The save of session s has run to its end.
SaveDone(s) == saved[s] = 1 /\ saving[s].pc = "idle"

\* The record session s built is in the history.
Present(s) == \E i \in DOMAIN History : History[i] = saving[s].record

\* C13: when two processes have each run save_checkin_entry on the same
\* file, both writes succeeding, the log holds the records of both exactly
\* when the two saves did not overlap; when they overlapped it holds the
\* record of one of them only.
C13_LostUpdateOnlyWhenInterleaved ==
  \A s \in Sessions : \A o \in Sessions \ {s} :
    (SaveDone(s) /\ SaveDone(o))
      => /\ Present(s) \/ Present(o)
         /\ (Present(s) /\ Present(o)) <=> ~saving[s].raced
         /\ saving[s].raced <=> saving[o].raced

\* Both saves ran, both on a log holding OldRecord, and the log holds the
\* record of one of them only.
C13_Witness ==
  \E s \in Sessions : \E o \in Sessions \ {s} :
    /\ SaveDone(s) /\ SaveDone(o)
    /\ saving[s].history = <<OldRecord>> /\ saving[o].history = <<OldRecord>>
    /\ History = <<OldRecord, saving[s].record>>
    /\ ~Present(o)

HasTimestamp(r) == "timestamp" \in DOMAIN r

\* C16: a record carries the clock value of the moment it is built for the
\* write, which is later than the creation time of its session, and the
\* timestamps of the log never decrease along it, in whatever order the
\* sessions started and saved.
C16_TimestampsAreWriteTimes ==
  /\ [](\A i \in DOMAIN History, j \in DOMAIN History :
          (i < j /\ HasTimestamp(History[i]) /\ HasTimestamp(History[j]))
            => History[i].timestamp <= History[j].timestamp)
  /\ [][\A s \in Sessions, t \in Summaries :
          begin_save(s, t)
            => /\ saving'[s].record.timestamp = clock
               /\ saving'[s].record.timestamp > userdata[s].session_start]_vars

\* The session that started first saved last: its record is behind the
\* other's and carries the later timestamp.
C16_Witness ==
  \E s \in Sessions : \E o \in Sessions \ {s} :
    /\ Active(s) /\ Active(o)
    /\ userdata[s].session_start < userdata[o].session_start
    /\ SaveDone(s) /\ SaveDone(o)
    /\ History = <<saving[o].record, saving[s].record>>
    /\ saving[o].record.timestamp < saving[s].record.timestamp

====
